---- MODULE Spec2Model ----
(***************************************************************************)
(* Model of src/src/array.rs: the shape-tagged, flat-storage Array<T>, its *)
(* construction paths, row decomposition, fill-sentinel handling and the   *)
(* comparison operators.                                                   *)
(*                                                                         *)
(* An array is a record [kind, shape, data, fill].  Elements are encoded   *)
(* as integers, per element kind:                                          *)
(*   number    : 1, 2 are ordinary floats, NaN is the fill sentinel        *)
(*   character : Unicode scalar values; 0 ('\x00') is the fill sentinel    *)
(*   byte      : ByteFill is Byte::Fill, anything else a Byte value        *)
(*   function  : FnNoop is Primitive::Noop, anything else another function *)
(***************************************************************************)
EXTENDS Integers, Sequences, FiniteSets, TLC

\* debug    : TRUE when debug assertions are compiled in (debug_assert_eq!)
\* a        : the array the operations act on
\* b, c     : further operands of the comparison operators
\* pre      : the value of a when the last operation was called
\* op       : the last operation called
\* ret      : what the last operation returned
\* panicked : TRUE once an operation has panicked (the program is gone)
VARIABLES debug, a, b, c, pre, op, ret, panicked

vars == <<debug, a, b, c, pre, op, ret, panicked>>

(* ------------------------------ bounds --------------------------------- *)

\* largest flat data length of an enumerated input
MaxLen == 4
\* largest rank of an enumerated shape
MaxRank == 2
\* largest dimension of an enumerated shape
MaxDim == 2
\* largest flat data length of an operand of the comparison specifications
MaxCmpLen == 3
\* largest number of strings collected into a character array
MaxLines == 2
\* largest number of chars of one of these strings
MaxLine == 2

(* --------------------------- element kinds ----------------------------- *)

Kinds == {"number", "byte", "character", "function"}

\* f64::NAN, the fill value of the number kind
NaN == -1
\* '\x00', the fill value of the character kind
NulChar == 0
\* Byte::Fill
ByteFill == 256
\* the Primitive::Noop function
FnNoop == 0

\* the element values the inputs are drawn from ('a' = 97, 'e-acute' = 233)
Vals(kind) ==
    CASE kind = "number"    -> {NaN, 1, 2}
      [] kind = "character" -> {NulChar, 97, 233}
      [] kind = "byte"      -> {ByteFill, 1}
      [] kind = "function"  -> {FnNoop, 1}

\* ArrayValue::DEFAULT_FILL: false unless overridden; char overrides it
DEFAULT_FILL(kind) == kind = "character"

\* ArrayValue::fill_value
fill_value(kind) ==
    CASE kind = "number"    -> NaN
      [] kind = "character" -> NulChar
      [] kind = "byte"      -> ByteFill
      [] kind = "function"  -> FnNoop

\* ArrayValue::is_fill_value (is_nan / == Byte::Fill / == '\x00' / == Noop)
is_fill_value(kind, x) ==
    CASE kind = "number"    -> x = NaN
      [] kind = "character" -> x = NulChar
      [] kind = "byte"      -> x = ByteFill
      [] kind = "function"  -> x = FnNoop

\* Ord::cmp of two integers (also usize::cmp)
IntCmp(x, y) == IF x < y THEN "Less" ELSE IF x > y THEN "Greater" ELSE "Equal"

\* bool::cmp (false < true)
BoolCmp(x, y) ==
    IF x = y THEN "Equal" ELSE IF y THEN "Less" ELSE "Greater"

\* <f64 as ArrayValue>::cmp: partial_cmp, and when that is None (a NaN is
\* involved) the comparison of the two is_nan() flags
F64Cmp(x, y) ==
    IF x # NaN /\ y # NaN THEN IntCmp(x, y) ELSE BoolCmp(x = NaN, y = NaN)

\* Ord::cmp of Byte and of Rc<Function>: the derived order of the encoding
ExternCmp(x, y) == IntCmp(x, y)

\* ArrayValue::cmp, per kind
ElemCmp(kind, x, y) ==
    CASE kind = "number"    -> F64Cmp(x, y)
      [] kind = "character" -> IntCmp(x, y)
      [] OTHER              -> ExternCmp(x, y)

\* Into<U> for the element conversions of convert(): the identity for T -> T,
\* and Byte -> f64, which sends Byte::Fill to NaN
IntoElem(from, to, x) ==
    IF from = "byte" /\ to = "number"
    THEN (IF x = ByteFill THEN NaN ELSE x)
    ELSE x

\* char::len_utf8, the number of bytes String::len counts for one char
LenUtf8(ch) ==
    IF ch < 128 THEN 1 ELSE IF ch < 2048 THEN 2 ELSE IF ch < 65536 THEN 3 ELSE 4

(* ------------------------- sequences and shapes ------------------------ *)

RECURSIVE Product(_)
\* shape.iter().product::<usize>() (the empty product is 1)
Product(s) == IF s = <<>> THEN 1 ELSE Head(s) * Product(Tail(s))

RECURSIVE SumSeq(_)
SumSeq(s) == IF s = <<>> THEN 0 ELSE Head(s) + SumSeq(Tail(s))

Min(x, y) == IF x < y THEN x ELSE y

\* data[from..to) of a 0-indexed slice, clipped to the data's length
Sub(data, from, to) == SubSeq(data, from + 1, Min(to, Len(data)))

SeqsUpTo(S, n) == UNION {[1..k -> S] : k \in 0..n}

\* the enumerated shapes
Shapes == {s \in SeqsUpTo(0..MaxDim, MaxRank) : Product(s) <= MaxLen}

MkArray(kind, shape, data, fill) ==
    [kind |-> kind, shape |-> shape, data |-> data, fill |-> fill]

NoArray == MkArray("number", <<>>, <<>>, FALSE)

\* Invariant I1: len(data) == product(shape)
I1(x) == Len(x.data) = Product(x.shape)

(* --------------------------- Array<T> methods -------------------------- *)

\* validate_shape: debug_assert_eq!(product(shape), data.len()); TRUE when
\* the call returns, FALSE when it panics (only a debug build checks)
validate_shape(dbg, shape, data) == ~dbg \/ Product(shape) = Len(data)

\* Array::new
ArrayNew(dbg, kind, shape, data) ==
    [panic |-> ~validate_shape(dbg, shape, data),
     val   |-> MkArray(kind, shape, data, DEFAULT_FILL(kind))]

\* Array::default
ArrayDefault(kind) == MkArray(kind, <<0>>, <<>>, DEFAULT_FILL(kind))

\* Array::unit
unit(dbg, kind, x) == ArrayNew(dbg, kind, <<>>, <<x>>)

\* From<Vec<T>> for Array<T>
from_vec(dbg, kind, data) == ArrayNew(dbg, kind, <<Len(data)>>, data)

\* String::len: the length in bytes of the UTF-8 encoding
StrLen(s) == SumSeq([i \in 1..Len(s) |-> LenUtf8(s[i])])

\* From<String> for Array<char>: the shape is [s.len()], the data s.chars()
from_string(dbg, s) == ArrayNew(dbg, "character", <<StrLen(s)>>, s)

RECURSIVE MaxLineLen(_)
\* lines.iter().map(|s| s.chars().count()).max().unwrap_or(0)
MaxLineLen(lines) ==
    IF lines = <<>> THEN 0
    ELSE LET m == MaxLineLen(Tail(lines))
         IN  IF Len(Head(lines)) > m THEN Len(Head(lines)) ELSE m

RECURSIVE PadLines(_, _)
\* the loop of FromIterator<String>: each line, then '\x00' up to max_len
PadLines(lines, max_len) ==
    IF lines = <<>> THEN <<>>
    ELSE Head(lines)
         \o [i \in 1..(max_len - Len(Head(lines))) |-> NulChar]
         \o PadLines(Tail(lines), max_len)

\* FromIterator<String> for Array<char>
from_iter_strings(dbg, lines) ==
    LET max_len == MaxLineLen(lines)
    IN  ArrayNew(dbg, "character", <<Len(lines), max_len>>,
                 PadLines(lines, max_len))

rank(x) == Len(x.shape)

flat_len(x) == Len(x.data)

\* shape.first().copied().unwrap_or(1)
row_count(x) == IF x.shape = <<>> THEN 1 ELSE x.shape[1]

\* shape.iter().skip(1).product()
row_len(x) == IF x.shape = <<>> THEN 1 ELSE Product(Tail(x.shape))

\* Array::row: &data[row * row_len..(row + 1) * row_len]; indexing a slice
\* panics when the end of the range is beyond the data
row(x, i) ==
    [panic |-> (i + 1) * row_len(x) > Len(x.data),
     val   |-> Sub(x.data, i * row_len(x), (i + 1) * row_len(x))]

\* Array::rows, every Row dereferenced (Deref for Row calls Array::row)
rows(x) ==
    [panic |-> \E k \in 0..(row_count(x) - 1) : row(x, k).panic,
     val   |-> [k \in 1..row_count(x) |-> row(x, k - 1).val]]

\* Array::rows().rev()
rows_rev(x) ==
    [panic |-> \E k \in 0..(row_count(x) - 1) : row(x, k).panic,
     val   |-> [k \in 1..row_count(x) |-> row(x, row_count(x) - k).val]]

\* slice::chunks_mut(n): panics when n is 0, else ceil(len / n) chunks, the
\* last one possibly shorter
chunks(data, n) ==
    IF n = 0 THEN [panic |-> TRUE, val |-> <<>>]
    ELSE [panic |-> FALSE,
          val   |-> [k \in 1..((Len(data) + n - 1) \div n) |->
                        Sub(data, (k - 1) * n, k * n)]]

\* Array::rows_mut
rows_mut(x) == chunks(x.data, row_len(x))

\* reset_fill as it would be if it cleared the flag whatever the kind
reset_fill_clear(x) == [x EXCEPT !.fill = FALSE]

\* Array::reset_fill
reset_fill(x) == [x EXCEPT !.fill = DEFAULT_FILL(x.kind)]

\* Array::convert
convert(x, to) ==
    MkArray(to, x.shape,
            [i \in 1..Len(x.data) |-> IntoElem(x.kind, to, x.data[i])],
            x.fill)

\* the row shape of into_rows / into_rows_rev: the shape without its first
\* dimension
row_shape(x) == IF x.shape = <<>> THEN <<>> ELSE Tail(x.shape)

\* Array::into_rows, collected: row k takes the next row_len elements that
\* are left in the data iterator
into_rows(dbg, x) ==
    LET rs == [k \in 1..row_count(x) |->
                  ArrayNew(dbg, x.kind, row_shape(x),
                           Sub(x.data, (k - 1) * row_len(x), k * row_len(x)))]
    IN  [panic |-> \E k \in 1..row_count(x) : rs[k].panic,
         val   |-> [k \in 1..row_count(x) |-> rs[k].val]]

RECURSIVE IntoRowsRevLoop(_, _, _, _)
\* the closure of into_rows_rev, called n more times on the data left:
\* data.len() - row_len underflows (a panic in a debug build, a wrapped
\* start beyond the data for drain in a release build)
IntoRowsRevLoop(dbg, x, data, n) ==
    IF n = 0 THEN [panic |-> FALSE, val |-> <<>>]
    ELSE IF Len(data) < row_len(x) THEN [panic |-> TRUE, val |-> <<>>]
    ELSE LET end  == Len(data) - row_len(x)
             r    == ArrayNew(dbg, x.kind, row_shape(x),
                              Sub(data, end, Len(data)))
             rest == IntoRowsRevLoop(dbg, x, Sub(data, 0, end), n - 1)
         IN  [panic |-> r.panic \/ rest.panic,
              val   |-> <<r.val>> \o rest.val]

\* Array::into_rows_rev, collected
into_rows_rev(dbg, x) == IntoRowsRevLoop(dbg, x, x.data, row_count(x))

\* Array::empty_row
empty_row(dbg, x) ==
    IF rank(x) = 0 THEN [panic |-> FALSE, val |-> x]
    ELSE ArrayNew(dbg, x.kind, Tail(x.shape), <<>>)

\* the row test of truncate as it would be with any() in place of all()
AnyFill(kind, s) == \E i \in 1..Len(s) : is_fill_value(kind, s[i])

\* row.iter().all(|x| x.is_fill_value())
AllFill(kind, s) == \A i \in 1..Len(s) : is_fill_value(kind, s[i])

RECURSIVE TruncScan(_, _, _)
\* the loop of truncate over rows().enumerate().rev(), at row i, with the
\* new_len so far
TruncScan(x, i, new_len) ==
    IF i < 0 THEN [panic |-> FALSE, val |-> new_len]
    ELSE IF row(x, i).panic THEN [panic |-> TRUE, val |-> new_len]
    ELSE IF AllFill(x.kind, row(x, i).val) THEN TruncScan(x, i - 1, i)
    ELSE [panic |-> FALSE, val |-> new_len]

\* Array::truncate
truncate(x) ==
    IF ~x.fill \/ rank(x) = 0 THEN [panic |-> FALSE, val |-> x]
    ELSE LET scan == TruncScan(x, row_count(x) - 1, row_count(x))
         IN  IF scan.panic THEN [panic |-> TRUE, val |-> x]
             ELSE [panic |-> FALSE,
                   val   |-> [x EXCEPT
                                !.data  = Sub(x.data, 0, scan.val * row_len(x)),
                                !.shape = [x.shape EXCEPT ![1] = scan.val]]]

(* ------------------------ rebuilding from rows ------------------------- *)

\* couple: stacks two arrays of one shape into an array of two rows, and
\* fails on two different shapes
couple(x, y) ==
    IF x.shape = y.shape
    THEN [ok  |-> TRUE,
          val |-> MkArray(x.kind, <<2>> \o x.shape, x.data \o y.data,
                          x.fill \/ y.fill)]
    ELSE [ok |-> FALSE, val |-> x]

\* join_impl in row-append mode: appends one row to an array of such rows,
\* and fails when the row's shape is not the shape of the array's rows
join_impl(x, y) ==
    IF x.shape # <<>> /\ Tail(x.shape) = y.shape
    THEN [ok  |-> TRUE,
          val |-> MkArray(x.kind, <<x.shape[1] + 1>> \o Tail(x.shape),
                          x.data \o y.data, x.fill \/ y.fill)]
    ELSE [ok |-> FALSE, val |-> x]

RECURSIVE FromRowsLoop(_, _, _, _)
\* the for loop of from_row_arrays and what follows it: value is the
\* accumulated array, count the rows taken so far
FromRowsLoop(value, rest, count, fill) ==
    IF rest = <<>>
    THEN [ok  |-> TRUE,
          val |-> IF count = 1
                  THEN [value EXCEPT !.shape = <<1>> \o value.shape]
                  ELSE value]
    ELSE LET r    == [Head(rest) EXCEPT !.fill = Head(rest).fill \/ fill]
             next == IF count + 1 = 2 THEN couple(value, r)
                                      ELSE join_impl(value, r)
         IN  IF next.ok
             THEN FromRowsLoop(next.val, Tail(rest), count + 1, fill)
             ELSE next

\* from_row_arrays as it would be without the shape.insert(0, 1) that
\* wraps a single row
from_row_arrays_nowrap(kind, values, fill) ==
    IF values = <<>> THEN [ok |-> TRUE, val |-> ArrayDefault(kind)]
    ELSE IF Len(values) = 1 THEN [ok |-> TRUE, val |-> Head(values)]
    ELSE FromRowsLoop(Head(values), Tail(values), 1, fill)

\* Array::from_row_arrays for rows of the given kind
from_row_arrays(kind, values, fill) ==
    IF values = <<>> THEN [ok |-> TRUE, val |-> ArrayDefault(kind)]
    ELSE FromRowsLoop(Head(values), Tail(values), 1, fill)

(* ----------------------------- comparisons ----------------------------- *)

\* eq as it would be without the skip_while of the leading fill values
NoSkip(kind, s) == s

RECURSIVE SkipWhileFill(_, _)
\* iter().skip_while(|x| x.is_fill_value())
SkipWhileFill(kind, s) ==
    IF s # <<>> /\ is_fill_value(kind, Head(s))
    THEN SkipWhileFill(kind, Tail(s)) ELSE s

RECURSIVE TakeWhileNotFill(_, _)
\* .take_while(|x| !x.is_fill_value())
TakeWhileNotFill(kind, s) ==
    IF s = <<>> \/ is_fill_value(kind, Head(s)) THEN <<>>
    ELSE <<Head(s)>> \o TakeWhileNotFill(kind, Tail(s))

RECURSIVE ZipAllEqual(_, _, _)
\* a.zip(b).all(|(a, b)| a.cmp(b) == Ordering::Equal)
ZipAllEqual(kind, s, t) ==
    IF s = <<>> \/ t = <<>> THEN TRUE
    ELSE ElemCmp(kind, Head(s), Head(t)) = "Equal"
         /\ ZipAllEqual(kind, Tail(s), Tail(t))

\* <Array<T> as PartialEq>::eq
eq(x, y) ==
    IF ~(x.shape = y.shape /\ Len(x.data) = Len(y.data)) THEN FALSE
    ELSE ZipAllEqual(x.kind,
                     TakeWhileNotFill(x.kind, SkipWhileFill(x.kind, x.data)),
                     TakeWhileNotFill(y.kind, SkipWhileFill(y.kind, y.data)))

RECURSIVE ZipFindCmp(_, _, _, _)
\* .zip(..).map(|(a, b)| a.cmp(b)).find(|o| o != &Equal).unwrap_or(dflt)
ZipFindCmp(kind, s, t, dflt) ==
    IF s = <<>> \/ t = <<>> THEN dflt
    ELSE IF ElemCmp(kind, Head(s), Head(t)) # "Equal"
         THEN ElemCmp(kind, Head(s), Head(t))
         ELSE ZipFindCmp(kind, Tail(s), Tail(t), dflt)

\* cmp as it would be if the flat lengths were compared before the elements
cmp_len_first(x, y) ==
    IF Len(x.data) # Len(y.data) THEN IntCmp(Len(x.data), Len(y.data))
    ELSE ZipFindCmp(x.kind, x.data, y.data, "Equal")

\* <Array<T> as Ord>::cmp
cmp(x, y) ==
    ZipFindCmp(x.kind, x.data, y.data, IntCmp(Len(x.data), Len(y.data)))

\* Array::val_cmp; the other array's elements go through Into<T>
val_cmp(x, y) ==
    ZipFindCmp(x.kind, x.data,
               [i \in 1..Len(y.data) |-> IntoElem(y.kind, x.kind, y.data[i])],
               IntCmp(Len(x.data), Len(y.data)))

\* <Array<T> as PartialOrd>::partial_cmp
partial_cmp(x, y) == <<"Some", val_cmp(x, y)>>

(* ------------------- the life of one array: Spec ----------------------- *)

\* the state after Array::default()
Init ==
    /\ debug \in BOOLEAN
    /\ \E kind \in Kinds : a = ArrayDefault(kind)
    /\ b = NoArray
    /\ c = NoArray
    /\ pre = a
    /\ op = "default"
    /\ ret = <<>>
    /\ panicked = FALSE

\* one call: name is the operation, new the array it leaves (when it does
\* not panic), result what it returns
Call(name, new, result, panic) ==
    /\ ~panicked
    /\ op' = name
    /\ pre' = a
    /\ a' = IF panic THEN a ELSE new
    /\ ret' = result
    /\ panicked' = panic
    /\ UNCHANGED <<debug, b, c>>

\* a constructor of Array<T> replaces the default array the run starts
\* with; T is the kind of that array
Construct(name, r) == Call(name, r.val, <<>>, r.panic)

\* Array::new, by a caller that keeps its contract (data of the shape's size)
New ==
    /\ op = "default"
    /\ \E shape \in Shapes :
          \E data \in [1..Product(shape) -> Vals(a.kind)] :
              Construct("new", ArrayNew(debug, a.kind, shape, data))

Unit ==
    /\ op = "default"
    /\ \E x \in Vals(a.kind) : Construct("unit", unit(debug, a.kind, x))

FromVec ==
    /\ op = "default"
    /\ \E data \in SeqsUpTo(Vals(a.kind), MaxLen) :
          Construct("from_vec", from_vec(debug, a.kind, data))

FromString ==
    /\ op = "default"
    /\ a.kind = "character"
    /\ \E s \in SeqsUpTo(Vals("character"), MaxLen) :
          Construct("from_string", from_string(debug, s))

\* the strings collected hold at most MaxLen chars once padded
FromIterStrings ==
    /\ op = "default"
    /\ a.kind = "character"
    /\ \E lines \in SeqsUpTo(SeqsUpTo(Vals("character"), MaxLine), MaxLines) :
          /\ Len(lines) * MaxLineLen(lines) <= MaxLen
          /\ Construct("from_iter_strings", from_iter_strings(debug, lines))

\* row.fill |= fill, the write of the fill flag in from_row_arrays
SetFill ==
    \E fill \in BOOLEAN :
        Call("set_fill", [a EXCEPT !.fill = a.fill \/ fill], <<>>, FALSE)

Truncate == Call("truncate", truncate(a).val, <<>>, truncate(a).panic)

ResetFill == Call("reset_fill", reset_fill(a), <<>>, FALSE)

Convert ==
    \E to \in {a.kind} \cup (IF a.kind = "byte" THEN {"number"} ELSE {}) :
        Call("convert", convert(a, to), <<>>, FALSE)

Rows == Call("rows", a, rows(a).val, rows(a).panic)

RowsRev == Call("rows_rev", a, rows_rev(a).val, rows_rev(a).panic)

RowsMut == Call("rows_mut", a, rows_mut(a).val, rows_mut(a).panic)

Row ==
    \E i \in 0..(row_count(a) + 1) :
        Call("row", a, [idx |-> i, val |-> row(a, i).val], row(a, i).panic)

EmptyRow ==
    Call("empty_row", a, empty_row(debug, a).val, empty_row(debug, a).panic)

IntoRows ==
    Call("into_rows", a, into_rows(debug, a).val, into_rows(debug, a).panic)

IntoRowsRev ==
    Call("into_rows_rev", a, into_rows_rev(debug, a).val,
         into_rows_rev(debug, a).panic)

\* from_row_arrays on the rows into_rows has just yielded; pre stays the
\* array the rows were taken from
FromRowArrays ==
    /\ ~panicked
    /\ op = "into_rows"
    /\ \E fill \in BOOLEAN :
          LET r == from_row_arrays(a.kind, ret, fill)
          IN  ret' = [fill |-> fill, ok |-> r.ok, val |-> r.val]
    /\ op' = "from_row_arrays"
    /\ UNCHANGED <<debug, a, b, c, pre, panicked>>

Next ==
    \/ New \/ Unit \/ FromVec \/ FromString \/ FromIterStrings
    \/ SetFill \/ Truncate \/ ResetFill \/ Convert
    \/ Rows \/ RowsRev \/ RowsMut \/ Row
    \/ EmptyRow \/ IntoRows \/ IntoRowsRev \/ FromRowArrays

Spec == Init /\ [][Next]_vars

(* --------------------------- claims under Spec ------------------------- *)

\* data[k * row_len .. (k + 1) * row_len] of x, for a row index k from 0
RowSlice(x, k) == SubSeq(x.data, k * row_len(x) + 1, (k + 1) * row_len(x))

\* C1: every array a construction path produced satisfies I1:
\* flat_len() = product(shape), also after truncate, reset_fill and convert,
\* and so does every row into_rows and into_rows_rev yield.
C1_InvariantI1 ==
    /\ I1(a)
    /\ (op \in {"into_rows", "into_rows_rev"} /\ ~panicked)
          => \A k \in 1..Len(ret) : I1(ret[k])

\* C2 as stated: rebuilding any array of rank >= 1 (one that satisfies I1,
\* whatever its row count) from its into_rows() with fill = false succeeds
\* and gives back the shape and the flat data.
C2_RoundTripAnyRowCount ==
    (op = "from_row_arrays" /\ ~ret.fill /\ I1(pre) /\ rank(pre) >= 1)
        => (ret.ok /\ ret.val.shape = pre.shape /\ ret.val.data = pre.data)

\* C2 amended: the round trip gives back shape and data for every array of
\* rank >= 1 satisfying I1 that has at least one row or has rank 1.
C2_RoundTrip ==
    (/\ op = "from_row_arrays" /\ ~ret.fill /\ I1(pre) /\ rank(pre) >= 1
     /\ (row_count(pre) >= 1 \/ rank(pre) = 1))
        => (ret.ok /\ ret.val.shape = pre.shape /\ ret.val.data = pre.data)

\* C2 witness: an array of three rows was split by into_rows and rebuilt
\* with fill = false (a couple of the first two rows, then a join)
C2_Witness ==
    /\ op = "from_row_arrays" /\ ~ret.fill /\ I1(pre)
    /\ row_count(pre) = 3 /\ pre.data # <<>> /\ ret.ok

\* row k of x (from 0) holds an element that is not the fill sentinel
RowHasValue(x, k) ==
    \E i \in (k * row_len(x) + 1)..((k + 1) * row_len(x)) :
        ~is_fill_value(x.kind, x.data[i])

\* one past the last row of x that holds a non-fill element, 0 without one
LastValueRow(x) ==
    CHOOSE n \in 0..row_count(x) :
        /\ n = 0 \/ RowHasValue(x, n - 1)
        /\ \A k \in n..(row_count(x) - 1) : ~RowHasValue(x, k)

\* C5: truncate() on an array satisfying I1 changes nothing when the fill
\* flag is false or the rank is 0; otherwise shape[0] becomes n, one past the
\* last row holding a non-fill element, the other dimensions and the fill
\* flag stay, and the data becomes its first n * row_len elements.
C5_Truncate ==
    (op = "truncate" /\ I1(pre))
        => /\ ~panicked
           /\ IF ~pre.fill \/ rank(pre) = 0 THEN a = pre
              ELSE LET n == LastValueRow(pre)
                   IN  /\ a.shape = <<n>> \o Tail(pre.shape)
                       /\ a.fill = pre.fill
                       /\ a.kind = pre.kind
                       /\ a.data = SubSeq(pre.data, 1, n * row_len(pre))

\* C5 witness: a 2 x 2 array whose first row is half fill and whose second
\* row is all fill was truncated to its first row
C5_Witness ==
    /\ op = "truncate" /\ I1(pre) /\ pre.fill
    /\ pre.shape = <<2, 2>> /\ a.shape = <<1, 2>>
    /\ ~is_fill_value(pre.kind, pre.data[1])
    /\ is_fill_value(pre.kind, pre.data[2])

\* C6: empty_row() returns a clone of a rank-0 array, and for rank >= 1 it
\* returns, passing the length check of Array::new, an array of no data with
\* the shape less its leading dimension.
C6_EmptyRow ==
    op = "empty_row"
        => /\ ~panicked
           /\ IF rank(pre) = 0 THEN ret = pre
              ELSE ret.data = <<>> /\ ret.shape = Tail(pre.shape)

\* C7 as stated: after reset_fill() the fill flag is false, for every kind,
\* and shape and data are unchanged.
C7_ResetFillClears ==
    op = "reset_fill"
        => (~a.fill /\ a.shape = pre.shape /\ a.data = pre.data)

\* C7 amended: after reset_fill() the fill flag is the kind's default, false
\* for number, byte and function and true for character, and shape and data
\* are unchanged.
C7_ResetFillDefault ==
    op = "reset_fill"
        => /\ a.kind = pre.kind
           /\ a.kind \in {"number", "byte", "function"} => ~a.fill
           /\ a.kind = "character" => a.fill
           /\ a.shape = pre.shape /\ a.data = pre.data

\* C7 witness: reset_fill() was called on a character array of some data
\* whose fill flag was set
C7_Witness ==
    /\ op = "reset_fill" /\ pre.kind = "character" /\ pre.fill
    /\ pre.data # <<>>

\* C8: on an array satisfying I1, rows() and rows_mut() do not panic and
\* yield row_count() items, item k being data[k*row_len .. (k+1)*row_len];
\* rows() reversed yields the same items in descending order.
C8_RowIteration ==
    /\ (op \in {"rows", "rows_mut"} /\ I1(pre))
          => /\ ~panicked
             /\ Len(ret) = row_count(pre)
             /\ \A k \in 1..Len(ret) : ret[k] = RowSlice(pre, k - 1)
    /\ (op = "rows_rev" /\ I1(pre))
          => /\ ~panicked
             /\ Len(ret) = row_count(pre)
             /\ \A k \in 1..Len(ret) : ret[k] = RowSlice(pre, Len(ret) - k)

\* C9: on an array satisfying I1, row(i) returns
\* data[i*row_len .. (i+1)*row_len] when i < row_count() and panics for
\* every i >= row_count().
C9_RowIndex ==
    (op = "row" /\ I1(pre))
        => /\ ret.idx < row_count(pre)
                => (~panicked /\ ret.val = RowSlice(pre, ret.idx))
           /\ ret.idx >= row_count(pre) => panicked

(* ------------- comparing two arrays: SpecCmp, three: SpecEqv ----------- *)

\* the arrays of one kind handed to the comparisons: what unit, From<Vec<T>>
\* and From<String> return (in a release build, whose arrays include those
\* of a debug build), with either fill flag
CmpInputs(kind) ==
    LET made ==
            {unit(FALSE, kind, x).val : x \in Vals(kind)}
            \cup {from_vec(FALSE, kind, d).val :
                     d \in SeqsUpTo(Vals(kind), MaxCmpLen)}
            \cup (IF kind = "character"
                  THEN {from_string(FALSE, d).val :
                           d \in SeqsUpTo(Vals(kind), MaxCmpLen)}
                  ELSE {})
    IN  {[x EXCEPT !.fill = f] : x \in made, f \in BOOLEAN}

\* the kinds U with U: Into<T>
IntoKinds(kind) == {kind} \cup (IF kind = "number" THEN {"byte"} ELSE {})

InitCmp ==
    /\ debug = FALSE
    /\ \E kind \in Kinds :
          /\ a \in CmpInputs(kind)
          /\ \E other \in IntoKinds(kind) : b \in CmpInputs(other)
    /\ c = NoArray
    /\ pre = a
    /\ op = "default"
    /\ ret = <<>>
    /\ panicked = FALSE

\* a comparison of a with b: nothing but the result changes
Compare(name, result) ==
    /\ op = "default"
    /\ op' = name
    /\ ret' = result
    /\ UNCHANGED <<debug, a, b, c, pre, panicked>>

Eq == a.kind = b.kind /\ Compare("eq", eq(a, b))

Cmp == a.kind = b.kind /\ Compare("cmp", cmp(a, b))

PartialCmp == a.kind = b.kind /\ Compare("partial_cmp", partial_cmp(a, b))

ValCmp == Compare("val_cmp", val_cmp(a, b))

NextCmp == Eq \/ Cmp \/ PartialCmp \/ ValCmp

SpecCmp == InitCmp /\ [][NextCmp]_vars

\* three arrays of one kind, each made by From<Vec<T>>
InitEqv ==
    /\ debug = FALSE
    /\ \E kind \in Kinds :
          LET made == {from_vec(FALSE, kind, d).val :
                          d \in SeqsUpTo(Vals(kind), MaxCmpLen)}
          IN  a \in made /\ b \in made /\ c \in made
    /\ pre = a
    /\ op = "default"
    /\ ret = <<>>
    /\ panicked = FALSE

\* a == a, a == b, b == a, b == c and a == c, evaluated one after the other
EqAll ==
    /\ op = "default"
    /\ op' = "eq_all"
    /\ ret' = [aa |-> eq(a, a), ab |-> eq(a, b), ba |-> eq(b, a),
               bc |-> eq(b, c), ac |-> eq(a, c)]
    /\ UNCHANGED <<debug, a, b, c, pre, panicked>>

NextEqv == EqAll

SpecEqv == InitEqv /\ [][NextEqv]_vars

(* ------------------ claims under SpecCmp and SpecEqv ------------------- *)

\* the index of the first element of s that is not a fill value, Len(s) + 1
\* when there is none
RunStart(kind, s) ==
    CHOOSE i \in 1..(Len(s) + 1) :
        /\ i = Len(s) + 1 \/ ~is_fill_value(kind, s[i])
        /\ \A j \in 1..(i - 1) : is_fill_value(kind, s[j])

\* the index of the first fill value of s from RunStart on, Len(s) + 1 when
\* there is none
RunEnd(kind, s) ==
    CHOOSE e \in RunStart(kind, s)..(Len(s) + 1) :
        /\ e = Len(s) + 1 \/ is_fill_value(kind, s[e])
        /\ \A j \in RunStart(kind, s)..(e - 1) : ~is_fill_value(kind, s[j])

\* the run of elements after the leading fill values, up to the next one
Run(kind, s) == SubSeq(s, RunStart(kind, s), RunEnd(kind, s) - 1)

\* C3: eq is false when the shapes or the flat lengths differ, whatever the
\* fill flags; otherwise it is true exactly when the two runs (after the
\* leading fill values, up to the next fill value) agree by the element order
\* on the first min(length, length) positions.
C3_Equality ==
    op = "eq"
        => LET ra == Run(a.kind, a.data)
               rb == Run(b.kind, b.data)
           IN  ret = (/\ a.shape = b.shape
                      /\ Len(a.data) = Len(b.data)
                      /\ \A i \in 1..Min(Len(ra), Len(rb)) :
                            ElemCmp(a.kind, ra[i], rb[i]) = "Equal")

\* C3 witness: two arrays of different fill flags, one starting with a fill
\* value and the other not, whose runs have different lengths, compared equal
C3_Witness ==
    /\ op = "eq" /\ ret = TRUE
    /\ a.fill # b.fill
    /\ a.data # <<>>
    /\ is_fill_value(a.kind, a.data[1]) /\ ~is_fill_value(b.kind, b.data[1])
    /\ Len(Run(a.kind, a.data)) >= 1
    /\ Len(Run(b.kind, b.data)) > Len(Run(a.kind, a.data))

\* what C4 says of the comparison of data s with data t of kind kind
FirstDifference(kind, s, t) ==
    LET diff == {i \in 1..Min(Len(s), Len(t)) :
                    ElemCmp(kind, s[i], t[i]) # "Equal"}
    IN  IF diff = {} THEN IntCmp(Len(s), Len(t))
        ELSE LET first == CHOOSE i \in diff : \A j \in diff : i <= j
             IN  ElemCmp(kind, s[first], t[first])

\* C4: cmp, partial_cmp and val_cmp skip no fill value and ignore the
\* shape: the result is the element comparison at the first position where
\* the two elements are not Equal, else the comparison of the flat lengths;
\* equal data, fill values included, compare Equal; partial_cmp is Some of
\* what cmp returns.
C4_Ordering ==
    /\ op = "cmp" => ret = FirstDifference(a.kind, a.data, b.data)
    /\ op = "partial_cmp"
          => /\ ret = <<"Some", FirstDifference(a.kind, a.data, b.data)>>
             /\ ret = <<"Some", cmp(a, b)>>
    /\ op = "val_cmp"
          => ret = FirstDifference(a.kind, a.data,
                       [i \in 1..Len(b.data) |->
                           IntoElem(b.kind, a.kind, b.data[i])])
    /\ (op = "cmp" /\ a.data = b.data) => ret = "Equal"

\* C4 witness: two arrays of different shapes whose data are the same fill
\* value followed by different elements were ordered by cmp
C4_Witness ==
    /\ op = "cmp" /\ ret = "Less" /\ a.shape # b.shape
    /\ Len(a.data) = 2 /\ Len(b.data) = 2
    /\ is_fill_value(a.kind, a.data[1]) /\ is_fill_value(b.kind, b.data[1])

\* C10: array equality is an equivalence relation: a == a, a == b implies
\* b == a, and a == b with b == c implies a == c.
C10_Equivalence ==
    op = "eq_all"
        => /\ ret.aa
           /\ ret.ab => ret.ba
           /\ (ret.ab /\ ret.bc) => ret.ac

====
